---- MODULE Spec2Model ----
(***************************************************************************)
(* Model of the ride chat screen (src/src/screens/ride/ChatScreen.tsx):    *)
(* the React state of the component, its effects, the four socket          *)
(* handlers it registers, and the history-load timer; and of the place     *)
(* search of DropLocationSelectorScreen.tsx and the OTP resend countdown   *)
(* of OTPVerificationScreen and SignUpScreen.                              *)
(*                                                                         *)
(* Specifications                                                          *)
(*   Spec      : one mounted ChatScreen, from mount to unmount.            *)
(*   SpecLive  : Spec with weak fairness of the history-load timer.        *)
(*   SpecOrder : two ChatScreens (messages / messagesB) that have both     *)
(*               run the setup effect and receive deliveries in            *)
(*               independent orders.                                       *)
(*   SpecTyping: the input field of a screen that has run the setup        *)
(*               effect: keystrokes, the typing-stop timer, the send       *)
(*               button, and the driver's typing events.                   *)
(*   SpecNotify: the screen's life cycle with its inbound pushes and the   *)
(*               notification dispatch and mark-read commands they cause.  *)
(*               The other specifications do not record these commands.    *)
(*   SpecDebounce: one burst of keystrokes from an empty input, then the   *)
(*               typing-stop timer.                                        *)
(*   SpecInbound: a screen that has run the setup effect and receives      *)
(*               well-formed and malformed message events and read         *)
(*               receipts.                                                 *)
(*   SpecSearch: the search field of the drop-location selector, its       *)
(*               debounce timer and the places requests in flight.         *)
(*   SpecOtp   : the countdown and the resend button of the OTP step;      *)
(*               SpecOtpLive adds weak fairness of the interval callback.  *)
(***************************************************************************)
EXTENDS Integers, Sequences, FiniteSets, TLC

\* ------------------------------------------------------------------ bounds
MaxId == 2
MaxLog == 3
MaxSnap == 2
MaxParams == 1
MaxText == 3
MaxCmds == 2
MaxKeys == 5
MaxQuery == 4
MaxInFlight == 2

\* ------------------------------------------------------- message universe
MsgIds == 1..MaxId

\* ChatMessage.senderType: a message id belongs to one sender.
SenderOf(id) == IF id % 2 = 1 THEN "user" ELSE "driver"

\* ChatMessage.timestamp: origin-assigned, not ordered like the ids
\* (id 1 is newer than id 2, id 3 ties with id 1).
TimestampOf(id) == 2 - ((id - 1) % 2)

\* ChatMessage (body text and rideId are not modelled: no handler reads them
\* to decide what happens to the log).
Msg(id, read) ==
  [id |-> id, senderType |-> SenderOf(id), timestamp |-> TimestampOf(id), isRead |-> read]

Msgs == {Msg(id, r) : id \in MsgIds, r \in BOOLEAN}

SeqsUpTo(S, n) == UNION {[1..k -> S] : k \in 0..n}

IdsOf(log) == {log[i].id : i \in DOMAIN log}

NoDupIds(log) == \A i, j \in DOMAIN log : log[i].id = log[j].id => i = j

Sorted(log) == \A i, j \in DOMAIN log : i < j => log[i].timestamp <= log[j].timestamp

\* What the server sends in a chat_history event: a list without repeated
\* ids in creation order, or a payload without a messages list.
HistoryPayloads ==
  {[hasMessages |-> TRUE, messages |-> s] :
      s \in {t \in SeqsUpTo(Msgs, MaxSnap) : NoDupIds(t) /\ Sorted(t)}}
  \cup {[hasMessages |-> FALSE, messages |-> <<>>]}

\* The text of the input field: a string of letters and blanks.
Chars == {"a", " "}

Texts == SeqsUpTo(Chars, MaxText)

RECURSIVE TrimStart(_)
TrimStart(t) == IF t # <<>> /\ Head(t) = " " THEN TrimStart(Tail(t)) ELSE t

RECURSIVE TrimEnd(_)
TrimEnd(t) == IF t # <<>> /\ t[Len(t)] = " " THEN TrimEnd(SubSeq(t, 1, Len(t) - 1)) ELSE t

\* String.prototype.trim
Trim(t) == TrimEnd(TrimStart(t))

\* ------------------------------------------------------------------- state
VARIABLES
  mounted,          \* the component instance exists
  isLoaded,         \* useAuth().isLoaded
  paramsVersion,    \* identity of route.params (bumped when it changes)
  userIdDeps,       \* deps of the last run of the getUserId effect
  lookups,          \* getUserIdFromJWT calls in flight
  userId,           \* useState('')
  rideId,           \* ride?.rideId || ''
  setupDeps,        \* deps of the last run of the chat setup effect
  listening,        \* the four socket handlers are registered
  isLoading,        \* useState(true)
  messages,         \* useState<ChatMessage[]>([])
  historyTimers,    \* pending history-load timers: the isLoading each closure captured
  historyRequests,  \* getChatHistory commands emitted
  historyReceived,  \* the onChatHistory handler has run
  messagesB,        \* SpecOrder: the log of the second screen
  coveredA,         \* SpecOrder: messages delivered to the first screen
  coveredB,         \* SpecOrder: messages delivered to the second screen
  newMessage,       \* useState('') of the input field
  typingTimeoutRef, \* "null", or the id of a timer that is "pending" or has "fired"
  typingStarts,     \* sendTypingStart commands emitted
  typingStops,      \* sendTypingStop commands emitted
  sendCmds,         \* sendChatMessage commands emitted
  burstKeys,        \* SpecDebounce: keystrokes of the burst so far
  lastSent,         \* body of the latest sendChatMessage command
  lastTypingSignal, \* the latest of sendTypingStart / sendTypingStop: "start", "stop"
  notifications,    \* sendChatNotificationToCurrentUser calls made
  lastNotification, \* payload of the latest of them
  markReads,        \* markMessagesAsRead commands emitted
  lastMarkRead,     \* payload of the latest of them
  dispatches,       \* notification promises not yet settled
  lastDispatchResult, \* what the latest settled promise logged
  unhandledRejection, \* a promise rejection reached no handler
  isDriverTyping,   \* useState(false)
  lastTypingEvent,  \* the latest typing event the handler was called with
  editing,          \* DropLocationSelectorScreen: useState<'drop' | 'current' | null>(null)
  searchQuery,      \* useState('')
  searchTimers,     \* queries of the pending debounce timers
  debounceRef,      \* useRef(null): the query of the timer it holds, if any
  inFlight,         \* queries of the searchPlaces fetches not yet answered
  searchResults,    \* useState([]): empty, or the predictions for one query
  isSearching,      \* useState(false)
  noResults,        \* useState(false)
  latestSearch,     \* the query of the searchPlaces call started last
  otpScreen,        \* which screen with an OTP step is open
  step,             \* SignUpScreen: useState<number>(1)
  timer,            \* useState(30)
  canResend,        \* useState(false)
  intervalActive,   \* the countdown's setInterval has not been cleared
  resendsInFlight,  \* handleResendOTP calls awaiting Clerk
  resendsDone       \* handleResendOTP calls that succeeded

screenVars == <<mounted, isLoaded, paramsVersion, userIdDeps, lookups, userId, rideId,
                setupDeps, listening, isLoading, messages, historyTimers,
                historyRequests, historyReceived>>
orderVars == <<messagesB, coveredA, coveredB>>
typingVars == <<newMessage, typingTimeoutRef, typingStarts, typingStops, sendCmds, burstKeys,
                lastTypingSignal, lastSent>>
pushVars == <<notifications, lastNotification, markReads, lastMarkRead, dispatches,
              lastDispatchResult, unhandledRejection, isDriverTyping, lastTypingEvent>>
searchVars == <<editing, searchQuery, searchTimers, debounceRef, inFlight, searchResults,
                isSearching, noResults, latestSearch>>
otpVars == <<otpScreen, step, timer, canResend, intervalActive, resendsInFlight, resendsDone>>
vars == <<screenVars, orderVars, typingVars, pushVars, searchVars, otpVars>>

\* The ride ids inbound events can carry: this screen's ride and another one.
EventRideIds == {"r1", "r2"}

\* No typing event, notification or mark-read command so far.
NoTypingEvent == [senderType |-> "none", isTyping |-> FALSE]
NoNotification == [rideId |-> "none", messageType |-> "none", priority |-> "none"]
NoMarkRead == [rideId |-> "none", readerId |-> "none", readerType |-> "none"]

\* The typing events the transport can deliver.
TypingEvents == [senderType : {"user", "driver"}, isTyping : BOOLEAN]

\* socket.ts keeps one callback per event: a registration replaces the one
\* before it, and nothing in the screen removes it.
HandlerRegistered == listening

NoDeps == <<>>
JwtUserId == "u1"
FallbackUserId == "user123"

\* ------------------------------------------------------ log transformations
\* onChatMessage: setMessages(prev => [...prev, message])
AdmitPush(log, m) == Append(log, m)

\* onChatHistory: setMessages(data.messages) or setMessages([])
ApplyHistory(log, data) == IF data.hasMessages THEN data.messages ELSE <<>>

\* A slip that marks every message, the driver's too.
MarkRead_AllMessages(log) ==
  [i \in DOMAIN log |-> [log[i] EXCEPT !.isRead = TRUE]]

\* onMessagesRead: every message sent by 'user' becomes read
MarkRead(log) ==
  [i \in DOMAIN log |->
     [log[i] EXCEPT !.isRead = IF log[i].senderType = "user" THEN TRUE ELSE log[i].isRead]]

\* -------------------------------------------------------------------- Init
InitScreen ==
  /\ mounted = TRUE
  /\ isLoaded \in BOOLEAN
  /\ paramsVersion = 0
  /\ userIdDeps = NoDeps
  /\ lookups = 0
  /\ userId = ""
  /\ rideId \in {"", "r1"}
  /\ setupDeps = NoDeps
  /\ listening = FALSE
  /\ isLoading = TRUE
  /\ messages = <<>>
  /\ historyTimers = <<>>
  /\ historyRequests = 0
  /\ historyReceived = FALSE

InitOrder ==
  /\ messagesB = <<>>
  /\ coveredA = {}
  /\ coveredB = {}

InitTyping ==
  /\ newMessage = <<>>
  /\ typingTimeoutRef = "null"
  /\ typingStarts = 0
  /\ typingStops = 0
  /\ sendCmds = 0
  /\ burstKeys = 0
  /\ lastTypingSignal = "none"
  /\ lastSent = <<>>

InitPush ==
  /\ notifications = 0
  /\ lastNotification = NoNotification
  /\ markReads = 0
  /\ lastMarkRead = NoMarkRead
  /\ dispatches = 0
  /\ lastDispatchResult = "none"
  /\ unhandledRejection = FALSE
  /\ isDriverTyping = FALSE
  /\ lastTypingEvent = NoTypingEvent

\* The drop-location selector as it mounts.
InitSearch ==
  /\ editing = "null"
  /\ searchQuery = <<>>
  /\ searchTimers = {}
  /\ debounceRef = <<>>
  /\ inFlight = <<>>
  /\ searchResults = <<>>
  /\ isSearching = FALSE
  /\ noResults = FALSE
  /\ latestSearch = <<>>

\* No screen with an OTP step is open.
InitOtp ==
  /\ otpScreen = "none"
  /\ step = 1
  /\ timer = 30
  /\ canResend = FALSE
  /\ intervalActive = FALSE
  /\ resendsInFlight = 0
  /\ resendsDone = 0

Init == InitScreen /\ InitOrder /\ InitTyping /\ InitPush /\ InitSearch /\ InitOtp

\* ----------------------------------------------------------------- actions
\* Clerk finishes loading.
AuthLoaded ==
  /\ mounted
  /\ ~isLoaded
  /\ isLoaded' = TRUE
  /\ UNCHANGED <<mounted, paramsVersion, userIdDeps, lookups, userId, rideId, setupDeps,
                 listening, isLoading, messages, historyTimers, historyRequests,
                 historyReceived>>
  /\ UNCHANGED <<orderVars, searchVars, otpVars, typingVars, pushVars>>

\* The navigator hands the screen a new route.params object.
RouteParamsChange ==
  /\ mounted
  /\ paramsVersion < MaxParams
  /\ paramsVersion' = paramsVersion + 1
  /\ UNCHANGED <<mounted, isLoaded, userIdDeps, lookups, userId, rideId, setupDeps,
                 listening, isLoading, messages, historyTimers, historyRequests,
                 historyReceived>>
  /\ UNCHANGED <<orderVars, searchVars, otpVars, typingVars, pushVars>>

\* useEffect(getUserId, [isLoaded, getToken, route.params, navigation])
GetUserIdEffect ==
  /\ mounted
  /\ userIdDeps # <<isLoaded, paramsVersion>>
  /\ userIdDeps' = <<isLoaded, paramsVersion>>
  /\ lookups' = IF isLoaded THEN lookups + 1 ELSE lookups
  /\ UNCHANGED <<mounted, isLoaded, paramsVersion, userId, rideId, setupDeps,
                 listening, isLoading, messages, historyTimers, historyRequests,
                 historyReceived>>
  /\ UNCHANGED <<orderVars, searchVars, otpVars, typingVars, pushVars>>

\* getUserIdFromJWT settles: setUserId(id), or setUserId(fallbackId) in the catch.
GetUserIdSettled(ok) ==
  /\ lookups > 0
  /\ lookups' = lookups - 1
  /\ userId' = IF mounted THEN (IF ok THEN JwtUserId ELSE FallbackUserId) ELSE userId
  /\ UNCHANGED <<mounted, isLoaded, paramsVersion, userIdDeps, rideId, setupDeps,
                 listening, isLoading, messages, historyTimers, historyRequests,
                 historyReceived>>
  /\ UNCHANGED <<orderVars, searchVars, otpVars, typingVars, pushVars>>

\* A slip that negates the check in the timer closure: if (!isLoading).
LoadChatHistory_NegatedCheck ==
  IF userId # "" /\ rideId # ""
    THEN /\ historyRequests' = historyRequests + 1
         /\ historyTimers' = Append(historyTimers, ~isLoading)
         /\ UNCHANGED isLoading
    ELSE /\ isLoading' = FALSE
         /\ UNCHANGED <<historyRequests, historyTimers>>

\* A slip that shows the spinner again on every request: setIsLoading(true).
LoadChatHistory_Reload ==
  IF userId # "" /\ rideId # ""
    THEN /\ historyRequests' = historyRequests + 1
         /\ historyTimers' = Append(historyTimers, TRUE)
         /\ isLoading' = TRUE
    ELSE /\ isLoading' = FALSE
         /\ UNCHANGED <<historyRequests, historyTimers>>

\* loadChatHistory, called from the setup effect: the command goes out and a
\* 10 s timer is started whose closure holds the isLoading of this render.
\* (The else branch is unreachable from the effect, which has checked both ids.)
LoadChatHistory ==
  IF userId # "" /\ rideId # ""
    THEN /\ historyRequests' = historyRequests + 1
         /\ historyTimers' = Append(historyTimers, isLoading)
         /\ UNCHANGED isLoading
    ELSE /\ isLoading' = FALSE
         /\ UNCHANGED <<historyRequests, historyTimers>>

\* cleanupListeners, the cleanup the setup effect returns once it has run in
\* full: the typing timer is cleared and the ref reset.
CleanupListeners ==
  /\ typingTimeoutRef' = IF listening THEN "null" ELSE typingTimeoutRef
  /\ UNCHANGED <<newMessage, typingStarts, typingStops, sendCmds, burstKeys, lastTypingSignal,
                 lastSent>>

\* useEffect(chat setup, [userId, rideId, isLoaded, navigation])
SetupEffect ==
  /\ mounted
  /\ setupDeps # <<userId, rideId, isLoaded>>
  /\ setupDeps' = <<userId, rideId, isLoaded>>
  /\ IF ~isLoaded \/ userId = "" \/ rideId = ""
       THEN UNCHANGED <<listening, isLoading, historyTimers, historyRequests>>
       ELSE /\ listening' = TRUE
            /\ LoadChatHistory
  /\ UNCHANGED <<mounted, isLoaded, paramsVersion, userIdDeps, lookups, userId, rideId,
                 messages, historyReceived>>
  /\ CleanupListeners
  /\ UNCHANGED <<orderVars, searchVars, otpVars, pushVars>>

\* onChatMessage((message) => ...): what the handler does to the screen.
ChatMessageHandler(m) ==
  /\ listening
  /\ mounted
  /\ Len(messages) < MaxLog
  /\ messages' = AdmitPush(messages, m)
  /\ UNCHANGED <<mounted, isLoaded, paramsVersion, userIdDeps, lookups, userId, rideId,
                 setupDeps, listening, isLoading, historyTimers, historyRequests,
                 historyReceived>>

\* onChatHistory((data) => ...): what the handler does to the screen.
ChatHistoryHandler(data) ==
  /\ listening
  /\ mounted
  /\ messages' = ApplyHistory(messages, data)
  /\ isLoading' = FALSE
  /\ historyReceived' = TRUE
  /\ UNCHANGED <<mounted, isLoaded, paramsVersion, userIdDeps, lookups, userId, rideId,
                 setupDeps, listening, historyTimers, historyRequests>>

\* A live push is delivered to the screen.
OnChatMessage(m) == ChatMessageHandler(m) /\ UNCHANGED <<orderVars, searchVars, otpVars, typingVars, pushVars>>

\* A history snapshot is delivered to the screen.
OnChatHistory(data) == ChatHistoryHandler(data) /\ UNCHANGED <<orderVars, searchVars, otpVars, typingVars, pushVars>>

\* onMessagesRead((data) => ...): a read receipt.
OnMessagesRead ==
  /\ listening
  /\ mounted
  /\ messages' = MarkRead(messages)
  /\ UNCHANGED <<mounted, isLoaded, paramsVersion, userIdDeps, lookups, userId, rideId,
                 setupDeps, listening, isLoading, historyTimers, historyRequests,
                 historyReceived>>
  /\ UNCHANGED <<orderVars, searchVars, otpVars, typingVars, pushVars>>

\* The setTimeout callback of loadChatHistory: if (isLoading) setIsLoading(false),
\* reading the isLoading its closure captured. Nothing ever clears the timer.
HistoryTimeout ==
  /\ historyTimers # <<>>
  /\ historyTimers' = Tail(historyTimers)
  /\ isLoading' = IF Head(historyTimers) /\ mounted THEN FALSE ELSE isLoading
  /\ UNCHANGED <<mounted, isLoaded, paramsVersion, userIdDeps, lookups, userId, rideId,
                 setupDeps, listening, messages, historyRequests, historyReceived>>
  /\ UNCHANGED <<orderVars, searchVars, otpVars, typingVars, pushVars>>

\* The screen is popped: React runs the effect cleanup; the state is dropped,
\* the history timers and the socket handlers stay.
Unmount ==
  /\ mounted
  /\ mounted' = FALSE
  /\ UNCHANGED <<isLoaded, paramsVersion, userIdDeps, lookups, userId, rideId, setupDeps,
                 listening, isLoading, messages, historyTimers, historyRequests,
                 historyReceived>>
  /\ CleanupListeners
  /\ UNCHANGED <<orderVars, searchVars, otpVars, pushVars>>

Next ==
  \/ AuthLoaded
  \/ RouteParamsChange
  \/ GetUserIdEffect
  \/ \E ok \in BOOLEAN : GetUserIdSettled(ok)
  \/ SetupEffect
  \/ \E m \in Msgs : OnChatMessage(m)
  \/ \E data \in HistoryPayloads : OnChatHistory(data)
  \/ OnMessagesRead
  \/ HistoryTimeout
  \/ Unmount

Spec == Init /\ [][Next]_vars

SpecLive == Spec /\ WF_vars(HistoryTimeout)

\* ------------------------------------------------- two screens (SpecOrder)
\* Both screens have run the setup effect for user u1 and ride r1 and wait
\* for the history. Each message is pushed live at most once per screen.
InitAfterSetup ==
  /\ InitOrder
  /\ InitTyping
  /\ InitPush
  /\ InitSearch
  /\ InitOtp
  /\ mounted = TRUE
  /\ isLoaded = TRUE
  /\ paramsVersion = 0
  /\ userIdDeps = <<TRUE, 0>>
  /\ lookups = 0
  /\ userId = JwtUserId
  /\ rideId = "r1"
  /\ setupDeps = <<JwtUserId, "r1", TRUE>>
  /\ listening = TRUE
  /\ isLoading = TRUE
  /\ messages = <<>>
  /\ historyTimers = <<TRUE>>
  /\ historyRequests = 1
  /\ historyReceived = FALSE

Range(s) == {s[i] : i \in DOMAIN s}

PushA(m) ==
  /\ m.id \notin {x.id : x \in coveredA}
  /\ ChatMessageHandler(m)
  /\ coveredA' = coveredA \cup {m}
  /\ UNCHANGED <<messagesB, coveredB, typingVars, pushVars, searchVars, otpVars>>

HistoryA(data) ==
  /\ ChatHistoryHandler(data)
  /\ coveredA' = coveredA \cup Range(data.messages)
  /\ UNCHANGED <<messagesB, coveredB, typingVars, pushVars, searchVars, otpVars>>

PushB(m) ==
  /\ m.id \notin {x.id : x \in coveredB}
  /\ Len(messagesB) < MaxLog
  /\ messagesB' = AdmitPush(messagesB, m)
  /\ coveredB' = coveredB \cup {m}
  /\ UNCHANGED <<screenVars, coveredA, typingVars, pushVars, searchVars, otpVars>>

HistoryB(data) ==
  /\ messagesB' = ApplyHistory(messagesB, data)
  /\ coveredB' = coveredB \cup Range(data.messages)
  /\ UNCHANGED <<screenVars, coveredA, typingVars, pushVars, searchVars, otpVars>>

NextOrder ==
  \/ \E m \in Msgs : PushA(m)
  \/ \E data \in HistoryPayloads : HistoryA(data)
  \/ \E m \in Msgs : PushB(m)
  \/ \E data \in HistoryPayloads : HistoryB(data)

SpecOrder == InitAfterSetup /\ [][NextOrder]_vars

\* ------------------------------------------------ input field (SpecTyping)
\* The state a screen is in once the setup effect has run in full for user
\* uid and ride r1.
ScreenAfterSetup(uid) ==
  /\ mounted = TRUE
  /\ isLoaded = TRUE
  /\ paramsVersion = 0
  /\ userIdDeps = <<TRUE, 0>>
  /\ lookups = 0
  /\ userId = uid
  /\ rideId = "r1"
  /\ setupDeps = <<uid, "r1", TRUE>>
  /\ listening = TRUE
  /\ isLoading = TRUE
  /\ messages = <<>>
  /\ historyTimers = <<TRUE>>
  /\ historyRequests = 1
  /\ historyReceived = FALSE

InitInput ==
  /\ InitOrder
  /\ InitTyping
  /\ InitPush
  /\ InitSearch
  /\ InitOtp
  /\ \E uid \in {JwtUserId, FallbackUserId} : ScreenAfterSetup(uid)

\* handleTyping(text), the onChangeText of the input field.
HandleTyping(text) ==
  /\ mounted
  /\ newMessage' = text
  /\ typingStarts' = IF Len(text) = 1 /\ userId # "" /\ rideId # ""
                       THEN typingStarts + 1 ELSE typingStarts
  /\ lastTypingSignal' = IF Len(text) = 1 /\ userId # "" /\ rideId # ""
                           THEN "start" ELSE lastTypingSignal
  /\ typingTimeoutRef' = "pending"
  /\ UNCHANGED <<typingStops, sendCmds, lastSent>>
  /\ UNCHANGED screenVars

\* The 1 s setTimeout callback of handleTyping. The ref keeps the timer id.
TypingStopTimeout ==
  /\ typingTimeoutRef = "pending"
  /\ typingTimeoutRef' = "fired"
  /\ typingStops' = IF userId # "" /\ rideId # "" THEN typingStops + 1 ELSE typingStops
  /\ lastTypingSignal' = IF userId # "" /\ rideId # "" THEN "stop" ELSE lastTypingSignal
  /\ UNCHANGED <<newMessage, typingStarts, sendCmds, lastSent>>
  /\ UNCHANGED screenVars

\* A slip that forgets to clear the typing timer on send.
HandleSendMessage_KeepTimer ==
  /\ mounted
  /\ IF Trim(newMessage) # <<>> /\ userId # "" /\ rideId # ""
       THEN /\ sendCmds' = sendCmds + 1
            /\ lastSent' = Trim(newMessage)
            /\ newMessage' = <<>>
            /\ typingStops' = typingStops + 1
            /\ lastTypingSignal' = "stop"
            /\ UNCHANGED typingTimeoutRef
       ELSE UNCHANGED <<sendCmds, newMessage, typingStops, typingTimeoutRef, lastTypingSignal,
                       lastSent>>
  /\ UNCHANGED typingStarts
  /\ UNCHANGED screenVars

\* A slip that tests newMessage instead of newMessage.trim().
HandleSendMessage_NoTrim ==
  /\ mounted
  /\ IF newMessage # <<>> /\ userId # "" /\ rideId # ""
       THEN /\ sendCmds' = sendCmds + 1
            /\ lastSent' = Trim(newMessage)
            /\ newMessage' = <<>>
            /\ typingStops' = typingStops + 1
            /\ lastTypingSignal' = "stop"
            /\ typingTimeoutRef' = "null"
       ELSE UNCHANGED <<sendCmds, newMessage, typingStops, typingTimeoutRef, lastTypingSignal,
                       lastSent>>
  /\ UNCHANGED typingStarts
  /\ UNCHANGED screenVars

\* handleSendMessage, the onPress of the send button: send-message, then
\* typing-stop, then the typing timer is cleared, all in one handler run.
HandleSendMessage ==
  /\ mounted
  /\ IF Trim(newMessage) # <<>> /\ userId # "" /\ rideId # ""
       THEN /\ sendCmds' = sendCmds + 1
            /\ lastSent' = Trim(newMessage)
            /\ newMessage' = <<>>
            /\ typingStops' = typingStops + 1
            /\ lastTypingSignal' = "stop"
            /\ typingTimeoutRef' = "null"
       ELSE UNCHANGED <<sendCmds, newMessage, typingStops, typingTimeoutRef, lastTypingSignal,
                       lastSent>>
  /\ UNCHANGED typingStarts
  /\ UNCHANGED screenVars

\* The texts of the quick-reply chips.
QuickReplies == {<<"a">>, <<"a", " ", "a">>}

\* handleQuickReply(reply), the onPress of a quick-reply chip:
\* setNewMessage(reply), then handleSendMessage() of the same render, which
\* still reads the newMessage of before the press; its setNewMessage('') is
\* the later of the two updates.
HandleQuickReply(reply) ==
  /\ mounted
  /\ IF Trim(newMessage) # <<>> /\ userId # "" /\ rideId # ""
       THEN HandleSendMessage
       ELSE /\ newMessage' = reply
            /\ UNCHANGED <<sendCmds, lastSent, typingStops, typingTimeoutRef, lastTypingSignal,
                           typingStarts>>
            /\ UNCHANGED screenVars

\* The user changes the text (a key, a deletion, a paste).
Keystroke(text) ==
  /\ text # newMessage
  /\ typingStarts < MaxCmds
  /\ HandleTyping(text)
  /\ UNCHANGED <<orderVars, searchVars, otpVars, burstKeys, pushVars>>

\* One second passes without a change of the text.
StopTimerElapses ==
  /\ typingStops < MaxCmds
  /\ TypingStopTimeout
  /\ UNCHANGED <<orderVars, searchVars, otpVars, burstKeys, pushVars>>

\* The user presses the send button.
PressSend ==
  /\ sendCmds < MaxCmds
  /\ typingStops < MaxCmds
  /\ HandleSendMessage
  /\ UNCHANGED <<orderVars, searchVars, otpVars, burstKeys, pushVars>>

\* A slip that drops the sender check of the typing handler.
OnTypingIndicator_NoRoleCheck(data) ==
  /\ HandlerRegistered
  /\ lastTypingEvent' = data
  /\ isDriverTyping' = IF mounted THEN data.isTyping ELSE isDriverTyping
  /\ UNCHANGED <<notifications, lastNotification, markReads, lastMarkRead, dispatches,
                 lastDispatchResult, unhandledRejection>>
  /\ UNCHANGED <<screenVars, orderVars, searchVars, otpVars, typingVars>>

\* The onTypingIndicator callback: only a driver's event sets the flag, and
\* setIsDriverTyping on an unmounted screen does nothing.
OnTypingIndicator(data) ==
  /\ HandlerRegistered
  /\ lastTypingEvent' = data
  /\ isDriverTyping' = IF mounted /\ data.senderType = "driver"
                         THEN data.isTyping ELSE isDriverTyping
  /\ UNCHANGED <<notifications, lastNotification, markReads, lastMarkRead, dispatches,
                 lastDispatchResult, unhandledRejection>>
  /\ UNCHANGED <<screenVars, orderVars, searchVars, otpVars, typingVars>>

\* The user presses a quick-reply chip.
PressQuickReply(reply) ==
  /\ sendCmds < MaxCmds
  /\ typingStops < MaxCmds
  /\ HandleQuickReply(reply)
  /\ UNCHANGED <<orderVars, searchVars, otpVars, burstKeys, pushVars>>

NextTyping ==
  \/ \E text \in Texts : Keystroke(text)
  \/ StopTimerElapses
  \/ PressSend
  \/ \E reply \in QuickReplies : PressQuickReply(reply)
  \/ \E data \in TypingEvents : OnTypingIndicator(data)
  \/ Unmount

SpecTyping == InitInput /\ [][NextTyping]_vars

\* ------------------------------------------- one burst (SpecDebounce)
\* One key press: a character typed at the end, or the last one deleted.
IsKeyEdit(old, new) ==
  \/ Len(new) = Len(old) + 1 /\ SubSeq(new, 1, Len(old)) = old
  \/ Len(old) = Len(new) + 1 /\ SubSeq(old, 1, Len(new)) = new

\* A keystroke of the burst: it leaves the input non-empty and arrives before
\* the stop timer of the previous one has elapsed.
BurstKeystroke(text) ==
  /\ IsKeyEdit(newMessage, text)
  /\ text # <<>>
  /\ typingTimeoutRef # "fired"
  /\ burstKeys < MaxKeys
  /\ HandleTyping(text)
  /\ burstKeys' = burstKeys + 1
  /\ UNCHANGED <<orderVars, searchVars, otpVars, pushVars>>

\* The window elapses with no further input.
BurstQuiet ==
  /\ burstKeys >= 1
  /\ TypingStopTimeout
  /\ UNCHANGED <<orderVars, searchVars, otpVars, burstKeys, pushVars>>

NextDebounce ==
  \/ \E text \in Texts : BurstKeystroke(text)
  \/ BurstQuiet

SpecDebounce == InitInput /\ [][NextDebounce]_vars

\* ------------------------------------- pushes and their commands (SpecNotify)
\* The messages the pushes of SpecNotify carry: a message arrives unread.
PushedMsgs == {Msg(id, FALSE) : id \in MsgIds}

\* The userId the registered callbacks closed over: the one the setup effect
\* last ran with.
HandlerUserId == setupDeps[1]

\* What sendChatNotificationToCurrentUser's promise can do: resolve true,
\* resolve false, or reject.
DispatchOutcomes == {"sent", "failed", "error"}

\* A slip that tests the sender role the wrong way round.
ChatMessageNotify_WrongRole(m, ride) ==
  /\ IF m.senderType = "user"
       THEN /\ notifications' = notifications + 1
            /\ lastNotification' = [rideId |-> ride, messageType |-> "text", priority |-> "high"]
            /\ dispatches' = dispatches + 1
            /\ markReads' = markReads + 1
            /\ lastMarkRead' = [rideId |-> ride, readerId |-> HandlerUserId, readerType |-> "user"]
       ELSE UNCHANGED <<notifications, lastNotification, dispatches, markReads, lastMarkRead>>
  /\ UNCHANGED <<lastDispatchResult, unhandledRejection>>

\* A slip that drops the sender check.
ChatMessageNotify_NoRoleCheck(m, ride) ==
  /\ notifications' = notifications + 1
  /\ lastNotification' = [rideId |-> ride, messageType |-> "text", priority |-> "high"]
  /\ dispatches' = dispatches + 1
  /\ markReads' = markReads + 1
  /\ lastMarkRead' = [rideId |-> ride, readerId |-> HandlerUserId, readerType |-> "user"]
  /\ UNCHANGED <<lastDispatchResult, unhandledRejection>>

\* The second half of the onChatMessage callback, for a message that came
\* with ride id `ride`: a driver's message starts one notification dispatch
\* and, without waiting for it, emits one mark-read command.
ChatMessageNotify(m, ride) ==
  /\ IF m.senderType = "driver"
       THEN /\ notifications' = notifications + 1
            /\ lastNotification' = [rideId |-> ride, messageType |-> "text", priority |-> "high"]
            /\ dispatches' = dispatches + 1
            /\ markReads' = markReads + 1
            /\ lastMarkRead' = [rideId |-> ride, readerId |-> HandlerUserId, readerType |-> "user"]
       ELSE UNCHANGED <<notifications, lastNotification, dispatches, markReads, lastMarkRead>>
  /\ UNCHANGED <<lastDispatchResult, unhandledRejection>>

\* The transport calls the registered onChatMessage callback: the whole
\* callback, the append (nothing on an unmounted screen) and the commands.
ReceiveChatMessage(m, ride) ==
  /\ HandlerRegistered
  /\ notifications < MaxCmds
  /\ IF mounted THEN ChatMessageHandler(m) ELSE UNCHANGED screenVars
  /\ ChatMessageNotify(m, ride)
  /\ UNCHANGED <<isDriverTyping, lastTypingEvent>>
  /\ UNCHANGED <<orderVars, searchVars, otpVars, typingVars>>

\* A slip that leaves the .catch off the dispatch promise.
DispatchSettled_NoCatch(outcome) ==
  /\ dispatches > 0
  /\ dispatches' = dispatches - 1
  /\ IF outcome = "error"
       THEN unhandledRejection' = TRUE /\ UNCHANGED lastDispatchResult
       ELSE lastDispatchResult' = outcome /\ UNCHANGED unhandledRejection
  /\ UNCHANGED <<notifications, lastNotification, markReads, lastMarkRead,
                 isDriverTyping, lastTypingEvent>>
  /\ UNCHANGED <<screenVars, orderVars, searchVars, otpVars, typingVars>>

\* The dispatch promise settles: .then logs the result, .catch logs the error.
DispatchSettled(outcome) ==
  /\ dispatches > 0
  /\ dispatches' = dispatches - 1
  /\ lastDispatchResult' = outcome
  /\ UNCHANGED <<notifications, lastNotification, markReads, lastMarkRead,
                 unhandledRejection, isDriverTyping, lastTypingEvent>>
  /\ UNCHANGED <<screenVars, orderVars, searchVars, otpVars, typingVars>>

NextNotify ==
  \/ AuthLoaded
  \/ RouteParamsChange
  \/ GetUserIdEffect
  \/ \E ok \in BOOLEAN : GetUserIdSettled(ok)
  \/ SetupEffect
  \/ \E m \in PushedMsgs, ride \in EventRideIds : ReceiveChatMessage(m, ride)
  \/ \E outcome \in DispatchOutcomes : DispatchSettled(outcome)
  \/ Unmount

SpecNotify == Init /\ [][NextNotify]_vars

\* ------------------------------------ pushes and receipts (SpecInbound)
\* What a field the event lacks reads as in the callback.
NoId == 0
NoSenderType == "undefined"
NoRideId == "undefined"

\* Message events that lack the id or the sender role.
MalformedMsgs ==
  {[id |-> NoId, senderType |-> s, timestamp |-> 1, isRead |-> FALSE] : s \in {"user", "driver"}}
    \cup {[id |-> i, senderType |-> NoSenderType, timestamp |-> TimestampOf(i), isRead |-> FALSE] :
            i \in MsgIds}

\* The event lacks its id, its sender role or its ride id.
IsMalformed(m, ride) == m.id = NoId \/ m.senderType = NoSenderType \/ ride = NoRideId

\* The transport delivers a well-formed message event.
ReceiveWellFormed(m, ride) ==
  /\ ~IsMalformed(m, ride)
  /\ ReceiveChatMessage(m, ride)

\* The transport delivers a message event that lacks a required field: the
\* same callback runs, it has no validation of its own.
ReceiveMalformed(m, ride) ==
  /\ IsMalformed(m, ride)
  /\ ReceiveChatMessage(m, ride)

NextInbound ==
  \/ \E m \in PushedMsgs, ride \in EventRideIds : ReceiveWellFormed(m, ride)
  \/ \E m \in PushedMsgs \cup MalformedMsgs, ride \in EventRideIds \cup {NoRideId} :
       ReceiveMalformed(m, ride)
  \/ OnMessagesRead
  \/ \E outcome \in DispatchOutcomes : DispatchSettled(outcome)

SpecInbound == InitInput /\ [][NextInbound]_vars

\* ------------------------------------------- place search (SpecSearch)
\* The chat screen is not open.
NoChatScreen ==
  /\ mounted = FALSE
  /\ isLoaded = TRUE
  /\ paramsVersion = 0
  /\ userIdDeps = NoDeps
  /\ lookups = 0
  /\ userId = ""
  /\ rideId = ""
  /\ setupDeps = NoDeps
  /\ listening = FALSE
  /\ isLoading = TRUE
  /\ messages = <<>>
  /\ historyTimers = <<>>
  /\ historyRequests = 0
  /\ historyReceived = FALSE

InitSearchScreen ==
  /\ NoChatScreen
  /\ InitOrder
  /\ InitTyping
  /\ InitPush
  /\ InitSearch
  /\ InitOtp

\* The texts of the search field, told apart by their length.
Queries == SeqsUpTo({"a"}, MaxQuery)

\* searchQuery.length > 2
SearchThreshold == 2

\* What the places request can come back with: predictions, none, a failure.
SearchOutcomes == {"OK", "ZERO_RESULTS", "error"}

\* useEffect(debounce, [searchQuery, editing]) re-run for the query q and the
\* field e: the cleanup of the run before clears the timer the ref holds,
\* then a timer is started for q, or the results are emptied.
SearchEffect(q, e) ==
  IF e # "null" /\ Len(q) > SearchThreshold
    THEN /\ searchTimers' = (searchTimers \ Range(debounceRef)) \cup {q}
         /\ debounceRef' = <<q>>
         /\ UNCHANGED <<searchResults, noResults>>
    ELSE /\ searchTimers' = searchTimers \ Range(debounceRef)
         /\ searchResults' = <<>>
         /\ noResults' = FALSE
         /\ UNCHANGED debounceRef

\* onChangeText={setSearchQuery} of the field being edited, and the effect
\* that follows the render.
ChangeSearchQuery(text) ==
  /\ editing # "null"
  /\ text # searchQuery
  /\ searchQuery' = text
  /\ SearchEffect(text, editing)
  /\ UNCHANGED <<editing, inFlight, isSearching, latestSearch>>
  /\ UNCHANGED <<screenVars, orderVars, typingVars, pushVars, otpVars>>

\* The user taps a field: setEditing(field); setSearchQuery(address).
StartEditing(field, address) ==
  /\ <<address, field>> # <<searchQuery, editing>>
  /\ editing' = field
  /\ searchQuery' = address
  /\ SearchEffect(address, field)
  /\ UNCHANGED <<inFlight, isSearching, latestSearch>>
  /\ UNCHANGED <<screenVars, orderVars, typingVars, pushVars, otpVars>>

\* The user picks a location: setEditing(null), setSearchQuery(address),
\* setSearchResults([]), setNoResults(false), and the effect.
SelectLocation(address) ==
  /\ editing # "null"
  /\ editing' = "null"
  /\ searchQuery' = address
  /\ SearchEffect(address, "null")
  /\ UNCHANGED <<inFlight, isSearching, latestSearch>>
  /\ UNCHANGED <<screenVars, orderVars, typingVars, pushVars, otpVars>>

\* The 300 ms timer fires and searchPlaces(q) runs up to its fetch.
DebounceFires(q) ==
  /\ q \in searchTimers
  /\ Len(inFlight) < MaxInFlight
  /\ searchTimers' = searchTimers \ {q}
  /\ inFlight' = Append(inFlight, q)
  /\ isSearching' = TRUE
  /\ noResults' = FALSE
  /\ latestSearch' = <<q>>
  /\ UNCHANGED <<editing, searchQuery, debounceRef, searchResults>>
  /\ UNCHANGED <<screenVars, orderVars, typingVars, pushVars, otpVars>>

\* The i-th pending fetch is answered and searchPlaces runs to its end.
SearchResponds(i, outcome) ==
  /\ i \in DOMAIN inFlight
  /\ inFlight' = SubSeq(inFlight, 1, i - 1) \o SubSeq(inFlight, i + 1, Len(inFlight))
  /\ searchResults' = IF outcome = "OK" THEN <<inFlight[i]>> ELSE <<>>
  /\ noResults' = (outcome # "OK")
  /\ isSearching' = FALSE
  /\ UNCHANGED <<editing, searchQuery, searchTimers, debounceRef, latestSearch>>
  /\ UNCHANGED <<screenVars, orderVars, typingVars, pushVars, otpVars>>

NextSearch ==
  \/ \E text \in Queries : ChangeSearchQuery(text)
  \/ \E field \in {"drop", "current"}, address \in Queries : StartEditing(field, address)
  \/ \E address \in Queries : SelectLocation(address)
  \/ \E q \in Queries : DebounceFires(q)
  \/ \E i \in 1..MaxInFlight, outcome \in SearchOutcomes : SearchResponds(i, outcome)

SpecSearch == InitSearchScreen /\ [][NextSearch]_vars

\* The list of search results is on the screen.
ResultsShown ==
  editing = "drop" /\ Len(searchQuery) > SearchThreshold /\ ~isSearching /\ ~noResults

\* ------------------------------------------ OTP resend countdown (SpecOtp)
\* useState(30), setTimer(30)
OtpStart == 30

\* The screens that have an OTP step.
OtpScreens == {"OTPVerification", "SignUp"}

\* The OTP step is on the screen: always on OTPVerificationScreen, at step 3
\* of SignUpScreen.
OtpStepShown ==
  \/ otpScreen = "OTPVerification"
  \/ otpScreen = "SignUp" /\ step = 3

\* One of the two screens has mounted and run its effects: the countdown
\* effect of OTPVerificationScreen starts the interval, that of SignUpScreen
\* returns at step 1.
InitOtpScreen ==
  /\ NoChatScreen
  /\ InitOrder
  /\ InitTyping
  /\ InitPush
  /\ InitSearch
  /\ otpScreen \in OtpScreens
  /\ step = 1
  /\ timer = OtpStart
  /\ canResend = FALSE
  /\ intervalActive = (otpScreen = "OTPVerification")
  /\ resendsInFlight = 0
  /\ resendsDone = 0

\* The setInterval callback: setTimer(prev => ...), which at prev <= 1 sets
\* canResend and clears the interval.
OtpTick ==
  /\ intervalActive
  /\ IF timer <= 1
       THEN /\ timer' = 0
            /\ canResend' = TRUE
            /\ intervalActive' = FALSE
       ELSE /\ timer' = timer - 1
            /\ UNCHANGED <<canResend, intervalActive>>
  /\ UNCHANGED <<otpScreen, step, resendsInFlight, resendsDone>>
  /\ UNCHANGED <<screenVars, orderVars, typingVars, pushVars, searchVars>>

\* SignUpScreen: goToNextStep / goToPrevStep, and the countdown effect of
\* [step]: its cleanup clears the interval, and at step 3 it resets the timer
\* and starts a new interval.
StepChange(d) ==
  /\ otpScreen = "SignUp"
  /\ step + d \in 1..4
  /\ step' = step + d
  /\ IF step + d = 3
       THEN /\ timer' = OtpStart
            /\ canResend' = FALSE
            /\ intervalActive' = TRUE
       ELSE /\ intervalActive' = FALSE
            /\ UNCHANGED <<timer, canResend>>
  /\ UNCHANGED <<otpScreen, resendsInFlight, resendsDone>>
  /\ UNCHANGED <<screenVars, orderVars, typingVars, pushVars, searchVars>>

\* The user presses "Resend OTP", which is shown while canResend:
\* handleResendOTP runs up to its await.
PressResend ==
  /\ OtpStepShown
  /\ canResend
  /\ resendsInFlight + resendsDone < MaxCmds
  /\ resendsInFlight' = resendsInFlight + 1
  /\ UNCHANGED <<otpScreen, step, timer, canResend, intervalActive, resendsDone>>
  /\ UNCHANGED <<screenVars, orderVars, typingVars, pushVars, searchVars>>

\* Clerk answers: on success setTimer(30) and setCanResend(false), on
\* failure an alert. The interval is not touched.
ResendSettled(ok) ==
  /\ resendsInFlight > 0
  /\ resendsInFlight' = resendsInFlight - 1
  /\ IF ok
       THEN /\ timer' = OtpStart
            /\ canResend' = FALSE
            /\ resendsDone' = resendsDone + 1
       ELSE UNCHANGED <<timer, canResend, resendsDone>>
  /\ UNCHANGED <<otpScreen, step, intervalActive>>
  /\ UNCHANGED <<screenVars, orderVars, typingVars, pushVars, searchVars>>

NextOtp ==
  \/ OtpTick
  \/ \E d \in {-1, 1} : StepChange(d)
  \/ PressResend
  \/ \E ok \in BOOLEAN : ResendSettled(ok)

SpecOtp == InitOtpScreen /\ [][NextOtp]_vars

\* Time passes: the interval's callback runs as long as the interval exists.
SpecOtpLive == SpecOtp /\ WF_vars(OtpTick)

\* ================================================================== claims

\* C1 (identity uniqueness): in every reachable state no two entries of the
\* message log share a message id.
C1_IdentityUniqueness == NoDupIds(messages)

\* C2 (idempotent admission): after a live push of m, admitting m again
\* leaves the log as it is; and a push of an m whose id is already in the log
\* keeps the entries and their order and only ORs m's read flag into the
\* stored entry.
C2_IdempotentAdmission ==
  [][\A m \in Msgs :
       OnChatMessage(m) =>
         /\ AdmitPush(messages', m) = messages'
         /\ (m.id \in IdsOf(messages) =>
               messages' = [i \in DOMAIN messages |->
                              IF messages[i].id = m.id
                                THEN [messages[i] EXCEPT !.isRead = messages[i].isRead \/ m.isRead]
                                ELSE messages[i]])]_vars

\* C3 (read monotonicity): an id that has a read entry in the log and is
\* still in the log after the next event still has a read entry there.
C3_ReadMonotonic ==
  [][\A i \in DOMAIN messages :
       (messages[i].isRead /\ messages[i].id \in IdsOf(messages')) =>
         \E j \in DOMAIN messages' :
           messages'[j].id = messages[i].id /\ messages'[j].isRead]_vars

\* C4 (no message is ever removed): every id in the log is still in the log
\* after the next event.
C4_NeverRemoved == [][IdsOf(messages) \subseteq IdsOf(messages')]_vars

\* C5 (display ordering): in every reachable state the log is in
\* non-decreasing order of creation timestamp.
C5_DisplayOrdering == Sorted(messages)

\* C6 (delivery-order independence): two screens that have been delivered
\* the same set of messages, in whatever order of pushes and snapshots, hold
\* the same log.
C6_OrderIndependence == (coveredA = coveredB) => (messages = messagesB)

\* C7 (timeout fallback liveness): once the history request has been issued,
\* the mounted screen eventually leaves the loading state, snapshot or not.
C7_TimeoutFallback == (historyRequests > 0) ~> (~isLoading \/ ~mounted)

\* C7 witness: the screen left the loading state although no history
\* snapshot was ever handled.
C7_Witness == mounted /\ historyRequests > 0 /\ ~historyReceived /\ ~isLoading

\* C8 (history load state is terminal): the screen starts loading, and once
\* it has left the loading state (loaded or timed out) no event brings it
\* back; it leaves the loading state only through the history handler or the
\* timer callback.
C8_LoadStateTerminal ==
  [][/\ (~isLoading => ~isLoading')
     /\ (isLoading /\ ~isLoading' =>
           \/ HistoryTimeout
           \/ \E data \in HistoryPayloads : OnChatHistory(data))]_vars

\* C8 witness: released, and afterwards a second request, its timer, a
\* snapshot and a live push have all happened.
C8_Witness ==
  /\ mounted /\ ~isLoading /\ historyReceived
  /\ historyRequests = 2 /\ historyTimers = <<>> /\ Len(messages) > 0

\* C9 (a snapshot cancels the timer): a history snapshot handled while the
\* screen is loading ends the loading state and leaves no history-load timer
\* pending, so that the timer callback cannot run afterwards.
C9_SnapshotCancelsTimer ==
  [][(isLoading /\ \E data \in HistoryPayloads : OnChatHistory(data)) =>
       (~isLoading' /\ historyTimers' = <<>>)]_vars

\* C10 (one history request): at most one request-history command is issued
\* and at most one history-load timer is started while the screen is mounted.
C10_OneHistoryRequest == historyRequests <= 1 /\ Len(historyTimers) <= 1

C12_SelfNotificationSuppressed ==
  [][\A m \in PushedMsgs, ride \in EventRideIds :
       ReceiveChatMessage(m, ride) /\ m.senderType = "user" =>
         UNCHANGED <<notifications, lastNotification, dispatches, markReads, lastMarkRead>>]_vars

\* C12 witness: a pushed message of the user's role is in the log and no
\* notification and no mark-read command has been emitted.
C12_Witness ==
  /\ \E i \in DOMAIN messages : messages[i].senderType = "user"
  /\ notifications = 0
  /\ markReads = 0

\* C13 (mark-read command): a push of a driver's message on a mounted screen
\* emits one mark-read command that carries the screen's ride id, the user id
\* the callback was registered with and the reader role "user", and the
\* message is in the log in the state the command is emitted in.
C13_MarkReadCommand ==
  [][\A m \in PushedMsgs, ride \in EventRideIds :
       ReceiveChatMessage(m, ride) /\ m.senderType = "driver" /\ mounted =>
         /\ markReads' = markReads + 1
         /\ lastMarkRead' = [rideId |-> rideId, readerId |-> HandlerUserId, readerType |-> "user"]
         /\ m.id \in IdsOf(messages')]_vars

\* C14 (dispatch failure is swallowed): the push of a driver's message on a
\* mounted screen appends it and emits the mark-read command in the same
\* step, before the dispatch settles; the settling of a dispatch, whatever
\* its outcome, changes only the pending count and the logged result; and no
\* rejection is ever left unhandled.
C14_DispatchFailureSwallowed ==
  /\ [][\A m \in PushedMsgs, ride \in EventRideIds :
          ReceiveChatMessage(m, ride) /\ m.senderType = "driver" /\ mounted =>
            /\ messages' = Append(messages, m)
            /\ markReads' = markReads + 1
            /\ dispatches' = dispatches + 1]_vars
  /\ [][\A outcome \in DispatchOutcomes :
          DispatchSettled(outcome) =>
            /\ lastDispatchResult' = outcome
            /\ UNCHANGED <<screenVars, markReads, lastMarkRead, notifications,
                           lastNotification, unhandledRejection>>]_vars
  /\ [](~unhandledRejection)

\* C14 witness: a dispatch was rejected, and the driver's message is in the
\* log and its mark-read command was emitted.
C14_Witness ==
  /\ lastDispatchResult = "error"
  /\ \E i \in DOMAIN messages : messages[i].senderType = "driver"
  /\ markReads >= 1

\* C15 (debounce correctness): a burst of n >= 1 keystrokes from an empty
\* input, each leaving the input non-empty, has emitted exactly one
\* typing-start and no typing-stop while the stop timer is pending, and
\* exactly one typing-stop once the timer has elapsed.
C15_DebounceCorrectness ==
  /\ (burstKeys >= 1 => typingStarts = 1)
  /\ (typingTimeoutRef = "pending" => typingStops = 0)
  /\ (typingTimeoutRef = "fired" => typingStops = 1)

\* C16 (typing-start on empty -> non-empty only): a change of the text emits
\* typing-start exactly when the input was empty, the new text is non-empty
\* and no stop timer is pending.
C16_TypingStartOnIdle ==
  [][\A text \in Texts :
       Keystroke(text) =>
         ((typingStarts' = typingStarts + 1) <=>
            (newMessage = <<>> /\ text # <<>> /\ typingTimeoutRef # "pending"))]_vars

\* C17 (typing-stop once per active -> idle): typing-stops never outnumber
\* typing-starts, and a typing-stop is emitted only while a stop timer is
\* pending.
C17_TypingStopBalanced ==
  /\ [](typingStops <= typingStarts)
  /\ [][typingStops' # typingStops => typingTimeoutRef = "pending"]_vars

\* C18 (send while typing): a send while the stop timer is pending emits
\* typing-stop in the same step and leaves no stop timer pending, and a
\* typing-stop is only ever emitted by a send or by a pending stop timer.
C18_SendStopsTyping ==
  [][/\ (typingTimeoutRef = "pending" /\ sendCmds' = sendCmds + 1) =>
          (typingStops' = typingStops + 1 /\ typingTimeoutRef' # "pending")
     /\ (typingStops' # typingStops) =>
          (sendCmds' = sendCmds + 1 \/ typingTimeoutRef = "pending")]_vars

\* C18 witness: one keystroke, then a send while its stop timer was pending.
C18_Witness ==
  /\ typingStarts = 1 /\ sendCmds = 1 /\ typingStops = 1
  /\ typingTimeoutRef = "null" /\ newMessage = <<>>

\* C19 (remote typing state): on a mounted screen a typing event of the
\* driver role sets the remote-typing flag to the event's value, and a typing
\* event of any other role leaves the flag as it is; a change of the flag is
\* always the handling of a driver-role typing event.
C19_RemoteTypingState ==
  /\ [][\A data \in TypingEvents :
          OnTypingIndicator(data) =>
            IF data.senderType = "driver" /\ mounted
              THEN isDriverTyping' = data.isTyping
              ELSE UNCHANGED isDriverTyping]_vars
  /\ [][isDriverTyping' # isDriverTyping =>
          /\ lastTypingEvent'.senderType = "driver"
          /\ isDriverTyping' = lastTypingEvent'.isTyping]_vars

\* C19 witness: the driver's flag is set, and then a user-role event that
\* says "not typing" was handled and left it set.
C19_Witness ==
  /\ mounted
  /\ isDriverTyping
  /\ lastTypingEvent = [senderType |-> "user", isTyping |-> FALSE]

\* C20 (blank send is a no-op): pressing send while the input is empty or
\* whitespace-only changes nothing and emits nothing.
C20_BlankSendNoOp ==
  [][(Trim(newMessage) = <<>> /\ PressSend) => UNCHANGED vars]_vars

\* C20 witness: the input holds only blanks while a stop timer is pending.
C20_Witness ==
  /\ mounted /\ newMessage # <<>> /\ Trim(newMessage) = <<>>
  /\ typingTimeoutRef = "pending"

\* C22 (read receipt): a read receipt sets the read flag of every message of
\* the user's role and leaves the read flag of every other message, the
\* messages and their order as they are.
C22_ReadReceipt ==
  [][OnMessagesRead =>
       /\ Len(messages') = Len(messages)
       /\ \A i \in DOMAIN messages :
            /\ messages'[i].id = messages[i].id
            /\ messages'[i].senderType = messages[i].senderType
            /\ messages'[i].timestamp = messages[i].timestamp
            /\ messages'[i].isRead =
                 IF messages[i].senderType = "user" THEN TRUE ELSE messages[i].isRead]_vars

\* C22 witness: the pushes arrive unread, so a receipt has marked the user's
\* message and left the driver's unread.
C22_Witness ==
  /\ \E i \in DOMAIN messages : messages[i].senderType = "user" /\ messages[i].isRead
  /\ \E i \in DOMAIN messages : messages[i].senderType = "driver" /\ ~messages[i].isRead

\* C25 (malformed events are dropped): a message event that lacks its id or
\* its sender role, or a driver's message event that lacks its ride id,
\* leaves the log as it is and causes no notification dispatch and no
\* mark-read command.
C25_MalformedDropped ==
  [][\A m \in PushedMsgs \cup MalformedMsgs, ride \in EventRideIds \cup {NoRideId} :
       ReceiveMalformed(m, ride) /\ (m \in MalformedMsgs \/ m.senderType = "driver") =>
         UNCHANGED <<messages, notifications, dispatches, markReads>>]_vars

\* C23 (teardown): once the screen has unmounted, no timer callback and no
\* inbound event changes the screen's state or emits a command or a
\* notification, and no timer is left pending.
C23_Teardown ==
  /\ [][~mounted =>
          UNCHANGED <<messages, isLoading, isDriverTyping, historyRequests, sendCmds,
                      typingStarts, typingStops, markReads, notifications>>]_vars
  /\ [][~mounted' => typingTimeoutRef' # "pending"]_vars

\* C24 (conversation scoping): a driver's message event of another ride
\* leaves the log, the load state, the remote-typing flag and the commands
\* and notifications emitted so far as they are.
C24_ConversationScoping ==
  [][\A m \in PushedMsgs, ride \in EventRideIds :
       ReceiveChatMessage(m, ride) /\ m.senderType = "driver" /\ ride # rideId =>
         UNCHANGED <<messages, isLoading, isDriverTyping, notifications, dispatches, markReads>>]_vars

\* C26 (no start without an identity): handlers are registered only with a
\* non-empty user id and ride id, and no request-history, send-message,
\* typing-start, typing-stop or mark-read command is emitted with an empty
\* user id or an empty ride id.
C26_NoStartWithoutIdentity ==
  /\ listening => HandlerUserId # "" /\ rideId # ""
  /\ historyRequests + sendCmds + typingStarts + typingStops > 0 => userId # "" /\ rideId # ""
  /\ markReads > 0 => lastMarkRead.readerId # "" /\ lastMarkRead.rideId \notin {"", NoRideId}

\* C27 (typing indicator consistency): whenever the stop timer is pending and
\* the input is non-empty, the latest typing signal sent is typing-start.
C27_TypingIndicatorConsistent ==
  (mounted /\ typingTimeoutRef = "pending" /\ newMessage # <<>>) => lastTypingSignal = "start"

\* C21 (optimistic send): a send-message command goes out together with the
\* insertion of one message into the log: of the user's role, read, with an
\* id no entry of the log had, and the command carries the trimmed input.
C21_OptimisticSend ==
  [][sendCmds' = sendCmds + 1 =>
       /\ lastSent' = Trim(newMessage)
       /\ Len(messages') = Len(messages) + 1
       /\ SubSeq(messages', 1, Len(messages)) = messages
       /\ messages'[Len(messages')].senderType = "user"
       /\ messages'[Len(messages')].isRead
       /\ messages'[Len(messages')].id \notin IdsOf(messages)]_vars

\* C28 (quick reply): pressing the quick reply r emits exactly one
\* send-message command, and its body is r, whatever the input held.
C28_QuickReplySends ==
  [][\A reply \in QuickReplies :
       PressQuickReply(reply) => sendCmds' = sendCmds + 1 /\ lastSent' = reply]_vars

\* C29 (place search results are never stale): at most one debounce timer is
\* pending, and the results on the screen are those of the search started
\* last.
C29_SearchNeverStale ==
  /\ Cardinality(searchTimers) <= 1
  /\ (ResultsShown /\ searchResults # <<>>) => searchResults = latestSearch

\* C30 (OTP resend countdown): canResend is true exactly when the timer is at
\* 0; and whenever the OTP step is shown with canResend false, also after a
\* successful resend, canResend becomes true again (unless the OTP step is
\* left).
C30_ResendCountdown ==
  /\ [](canResend <=> timer = 0)
  /\ (OtpStepShown /\ ~canResend) ~> (canResend \/ ~OtpStepShown)

====
